---- MODULE Spec2Model ----
(***************************************************************************)
(* State-machine model of webextension/js/background.js: the supervisor of *)
(* the native-messaging channel (connect, onDisconnect, the reconnect and  *)
(* stabilization timers), the relay between the popup and the channel, and *)
(* the construction of the context menu from the device roster.            *)
(*                                                                         *)
(* Strings are sequences of tokens, so that concatenation, split,         *)
(* includes and the _ABOUT prefix test are computed, not assumed.          *)
(* Every handler runs to its next `await` in one step; the continuation    *)
(* after an awaited browser promise is a separate step.                    *)
(***************************************************************************)
EXTENDS Integers, Sequences, FiniteSets

VARIABLES
    State,                \* [connected, devices, port]: the roster and the channel handle
    reconnectDelay,       \* current backoff interval
    reconnectTimer,       \* id of the last reconnect timer, NoTimer for null
    reconnectResetTimer,  \* id of the last stabilization timer, NoTimer for null
    timers,               \* browser: the armed timers
    nextTimer,            \* browser: next timer id
    ports,                \* browser: the channels opened and not yet disconnected
    nextPort,             \* browser: next port id
    lifecycle,            \* browser: the lifecycle events already delivered
    badge,                \* browser: badge text and colour of the toolbar action
    action,               \* browser: whether the toolbar action is enabled, globally and per tab
    menu,                 \* browser: the context-menu entries
    tabUrl,               \* browser: url of every tab
    activeTab,            \* browser: the active tab of the current window
    disconnecting,        \* onDisconnect activations suspended at `await removeAll()`
    querying,             \* onPortMessage activations suspended at `await tabs.query()`
    getting,              \* tabs.get(info.tabId) calls of onActivated not yet resolved
    building,             \* createContextMenu activations suspended at `await removeAll()`
    posted,               \* messages handed to a port by the last step
    broadcast,            \* messages sent to the UI surfaces by the last step
    last,                 \* the handler step taken last
    doubled,              \* onDisconnect completions since the delay was last the base
    stable                \* a stabilization timer fired for an open channel, no onDisconnect since

vars == <<State, reconnectDelay, reconnectTimer, reconnectResetTimer, timers,
          nextTimer, ports, nextPort, lifecycle, badge, action, menu, tabUrl,
          activeTab, disconnecting, querying, getting, building, posted, broadcast, last,
          doubled, stable>>

----------------------------------------------------------------------------
(* Bounds of the model *)

\* connect() calls in one behaviour
MaxConnects == 3
\* suspended activations of onPortMessage, tabs.get and createContextMenu together
MaxPending == 2
\* devices in a roster of MenuSpec
MaxDevices == 2

----------------------------------------------------------------------------
(* Program constants and strings *)

Base == 100

NoPort == 0
NoTimer == 0

\* 'contextMenuMultipleDevices'
MultipleDevices == <<"contextMenuMultipleDevices">>
NoParent == <<>>

\* badge text and colour set by onDisconnect and by connect
DisconnectedBadge == [text |-> "\\u26D4", color |-> <<198, 40, 40, 255>>]
ConnectedBadge == [text |-> "", color |-> <<0, 0, 0, 0>>]

\* _ABOUT = /^chrome:|^about:/, tested against a url
ABOUT(url) == Len(url) > 0 /\ url[1] \in {"chrome:", "about:"}

\* String.prototype.includes for a one-token needle
Includes(str, token) == \E i \in 1..Len(str) : str[i] = token

\* template literal `${id}:${action}`
ItemId(id, pluginAction) == id \o <<":", pluginAction>>

\* what destructuring yields for an element the array does not have
Undefined == <<"undefined">>

\* String.prototype.split(':')
RECURSIVE Split(_)
Split(str) ==
    IF ~Includes(str, ":")
    THEN <<str>>
    ELSE LET i == CHOOSE k \in 1..Len(str) :
                      str[k] = ":" /\ \A j \in 1..(k - 1) : str[j] # ":"
         IN  <<SubSeq(str, 1, i - 1)>> \o Split(SubSeq(str, i + 1, Len(str)))

Part(parts, i) == IF i <= Len(parts) THEN parts[i] ELSE Undefined

\* const [id, action] = info.menuItemId.split(':')
ClickedDevice(menuItemId) == Part(Split(menuItemId), 1)

\* variant: the action is read from the first element
ClickedActionFirst(menuItemId) == Part(Split(menuItemId), 1)

ClickedAction(menuItemId) == Part(Split(menuItemId), 2)

----------------------------------------------------------------------------
(* Inputs *)

\* device ids; the last one contains the separator of the menu ids
DeviceIds == {<<"a">>, <<"b">>, <<"c">>, <<"x", ":", "y">>}

Devices == [id : DeviceIds, share : BOOLEAN, telephony : BOOLEAN]

Dev(id, share, telephony) == [id |-> id, share |-> share, telephony |-> telephony]

\* device lists the companion process reports while the channel is supervised
HostRosters == { <<>>,
                 <<Dev(<<"a">>, TRUE, TRUE)>>,
                 <<Dev(<<"a">>, TRUE, FALSE), Dev(<<"b">>, FALSE, FALSE)>> }

PageUrl == <<"https:", "//example.org", "/index.html">>
InternalUrl == <<"chrome:", "//extensions">>
Urls == {PageUrl, InternalUrl}

Tabs == {1, 2}

\* toggleAction(tab): the action is disabled on an internal page, enabled elsewhere
toggleAction(a, t, url) ==
    [a EXCEPT !.tab[t] = IF ABOUT(url) THEN "disabled" ELSE "enabled"]

\* toggleAction() without a tab: reading tab.url throws, the catch block
\* disables the action for all tabs
toggleActionNoTab(a) == [a EXCEPT !.all = "disabled"]

\* The value of the history variable `last`: which handler step ran, with what
\* it was given. `last`, `doubled` and `stable` record what happened and are
\* read by no step.
Last(op) == [op |-> op, url |-> <<>>, type |-> "", data |-> FALSE,
             sched |-> 0, stable |-> FALSE, trusted |-> FALSE,
             timer |-> NoTimer, item |-> <<>>]


----------------------------------------------------------------------------
(* The relay: postMessage, onPopupMessage, forwardPortMessage *)

DevicesRequest == [type |-> "devices", data |-> <<>>]

\* a message is the record {type, data}; a missing type is ""
ShareRequest == [type |-> "share", data |-> <<"url">>]

PopupMessages == { DevicesRequest, ShareRequest, [type |-> "", data |-> <<>>] }

PopupUrl == <<"chrome-extension:", "//gsconnect", "/popup.html">>

\* sender.url of a runtime message; <<>> stands for an absent url
SenderUrls == { <<>>,
                PopupUrl,
                <<"chrome-extension:", "//gsconnect", "/options.html">>,
                <<"https:", "//example.org", "/popup.html">> }

\* variant: the type of the message is not looked at
postMessageAnyType(port, message) ==
    IF port = NoPort
    THEN <<>>
    ELSE <<[port |-> port, message |-> message]>>

\* postMessage(message): what reaches State.port.postMessage
postMessage(port, message) ==
    IF port = NoPort \/ message.type = ""
    THEN <<>>
    ELSE <<[port |-> port, message |-> message]>>

\* the guard of onPopupMessage
SenderAccepted(url) == url # <<>> /\ Includes(url, "/popup.html")

\* variant: nothing is sent to the extension pages
forwardPortMessageDropped(message) == <<>>

\* forwardPortMessage(message): what reaches runtime.sendMessage
forwardPortMessage(message) == <<message>>

----------------------------------------------------------------------------
(* The context menu: contextMenus.create and the calls of createContextMenu *)

Entry(id, parent) == [id |-> id, parentId |-> parent]

\* contextMenus.create: an entry with a known id, or under an unknown parent,
\* is refused (runtime.lastError) and the menu is left as it is
Create(m, e) ==
    IF \E x \in m : x.id = e.id THEN m
    ELSE IF e.parentId # NoParent /\ ~ \E x \in m : x.id = e.parentId THEN m
    ELSE m \cup {e}

\* variant: the share case is forgotten
PluginActionTelephony(device) == "telephony"

\* the capability chosen for a device that is not shown as a group
PluginAction(device) == IF device.share THEN "share" ELSE "telephony"

\* variant: the flat leaf is created without parentId, as for a single device
FlatLeafOrphan == NoParent

\* the parent of the flat leaf of a device in a roster of several
FlatLeafParent == MultipleDevices

\* the entries created for one device of a roster of several
MultiDeviceCalls(device) ==
    IF device.share /\ device.telephony
    THEN << Entry(device.id, MultipleDevices),
            Entry(ItemId(device.id, "share"), device.id),
            Entry(ItemId(device.id, "telephony"), device.id) >>
    ELSE << Entry(ItemId(device.id, PluginAction(device)), FlatLeafParent) >>

\* the entries created for the only device of a roster
SingleDeviceCalls(device) ==
    IF device.share /\ device.telephony
    THEN << Entry(device.id, NoParent),
            Entry(ItemId(device.id, "share"), device.id),
            Entry(ItemId(device.id, "telephony"), device.id) >>
    ELSE << Entry(ItemId(device.id, PluginAction(device)), NoParent) >>

RECURSIVE ForEachDevice(_)
ForEachDevice(devices) ==
    IF devices = <<>> THEN <<>>
    ELSE MultiDeviceCalls(Head(devices)) \o ForEachDevice(Tail(devices))

\* the create calls of createContextMenu for a roster that is not empty
CreateCalls(devices) ==
    IF Len(devices) > 1
    THEN <<Entry(MultipleDevices, NoParent)>> \o ForEachDevice(devices)
    ELSE SingleDeviceCalls(devices[1])

RECURSIVE ApplyCalls(_, _)
ApplyCalls(m, calls) ==
    IF calls = <<>> THEN m
    ELSE ApplyCalls(Create(m, Head(calls)), Tail(calls))

\* createContextMenu after `await removeAll()`: contextMenus.create returns the
\* item id, not a promise, so the awaits on it resume within the same task
BuiltMenu(m, devices, url) ==
    IF ABOUT(url) \/ Len(devices) = 0 THEN m
    ELSE ApplyCalls(m, CreateCalls(devices))


----------------------------------------------------------------------------
(* The channel supervisor *)

\* the timeout of the stabilization timer: reconnectDelay * 0.9
StabilizationTimeout(delay) == (delay * 9) \div 10

\* variant: the delay is doubled before the timer is set
ReconnectTimeoutAfterDoubling(delay) == delay * 2

\* the timeout of the reconnect timer: setTimeout(connect, reconnectDelay)
ReconnectTimeout(delay) == delay

\* variant: the delay grows by the base instead of doubling
NextDelayLinear(delay) == delay + Base

\* reconnectDelay *= 2
NextDelay(delay) == delay * 2

\* the value the stabilization timer assigns to reconnectDelay
ResetDelay == Base

Timer(id, kind, timeout, port) ==
    [id |-> id, kind |-> kind, timeout |-> timeout, port |-> port]

\* clearTimeout(id): no effect when no armed timer has that id
ClearTimeout(armed, id) == {t \in armed : t.id # id}

Pending ==
    querying + getting[1] + getting[2] + building[PageUrl] + building[InternalUrl]

Init ==
    /\ State = [connected |-> FALSE, devices |-> <<>>, port |-> NoPort]
    /\ reconnectDelay = Base
    /\ reconnectTimer = NoTimer
    /\ reconnectResetTimer = NoTimer
    /\ timers = {}
    /\ nextTimer = 1
    /\ ports = {}
    /\ nextPort = 1
    /\ lifecycle = {}
    /\ badge = ConnectedBadge
    /\ action = [all |-> "enabled", tab |-> [t \in Tabs |-> "default"]]
    /\ menu = {}
    /\ tabUrl = [t \in Tabs |-> PageUrl]
    /\ activeTab = 1
    /\ disconnecting = 0
    /\ querying = 0
    /\ getting = [t \in Tabs |-> 0]
    /\ building = [u \in Urls |-> 0]
    /\ posted = <<>>
    /\ broadcast = <<>>
    /\ last = Last("init")
    /\ doubled = 0
    /\ stable = FALSE

\* connect(), with `armed` the timers armed when it is called
connect(armed) ==
    /\ nextPort <= MaxConnects
    /\ State' = [State EXCEPT !.port = nextPort]
    /\ ports' = ports \cup {nextPort}
    /\ nextPort' = nextPort + 1
    /\ badge' = ConnectedBadge
    /\ timers' = armed \cup
          {Timer(nextTimer, "reset", StabilizationTimeout(reconnectDelay), nextPort)}
    /\ reconnectResetTimer' = nextTimer
    /\ nextTimer' = nextTimer + 1
    /\ posted' = <<[port |-> nextPort, message |-> DevicesRequest]>>
    /\ broadcast' = <<>>
    /\ last' = Last("connect")
    /\ UNCHANGED <<reconnectDelay, reconnectTimer, menu, tabUrl, activeTab,
                   disconnecting, querying, getting, building, doubled, stable>>

\* runtime.onStartup
OnStartup ==
    /\ "startup" \notin lifecycle
    /\ lifecycle' = lifecycle \cup {"startup"}
    /\ action' = toggleActionNoTab(action)
    /\ connect(timers)

\* runtime.onInstalled
OnInstalled ==
    /\ "installed" \notin lifecycle
    /\ lifecycle' = lifecycle \cup {"installed"}
    /\ action' = toggleActionNoTab(action)
    /\ connect(timers)

\* the reconnect timer fires: connect()
ReconnectTimerFires ==
    \E t \in timers :
        /\ t.kind = "connect"
        /\ connect(timers \ {t})
        /\ UNCHANGED <<lifecycle, action>>

\* the stabilization timer fires: reconnectDelay = 100
ResetTimerFires ==
    \E t \in timers :
        /\ t.kind = "reset"
        /\ timers' = timers \ {t}
        /\ reconnectDelay' = ResetDelay
        /\ doubled' = 0
        /\ stable' = (t.port \in ports)
        /\ posted' = <<>>
        /\ broadcast' = <<>>
        /\ last' = [Last("reset") EXCEPT !.timer = t.id]
        /\ UNCHANGED <<State, reconnectTimer, reconnectResetTimer, nextTimer, ports,
                       nextPort, lifecycle, badge, action, menu, tabUrl, activeTab,
                       disconnecting, querying, getting, building>>

\* the roster fields onDisconnect assigns
DisconnectedState(s) == [s EXCEPT !.connected = FALSE, !.port = NoPort]

\* onDisconnect up to `await browser.contextMenus.removeAll()`
onDisconnect ==
    \E p \in ports :
        /\ ports' = ports \ {p}
        /\ State' = DisconnectedState(State)
        /\ badge' = DisconnectedBadge
        /\ broadcast' = forwardPortMessage([type |-> "connected", data |-> FALSE])
        /\ menu' = {}
        /\ disconnecting' = disconnecting + 1
        /\ posted' = <<>>
        /\ last' = Last("onDisconnect")
        /\ UNCHANGED <<action, reconnectDelay, reconnectTimer, reconnectResetTimer, timers,
                       nextTimer, nextPort, lifecycle, tabUrl, activeTab, querying,
                       getting, building, doubled, stable>>

\* onDisconnect after the await: clear both timers, schedule connect, double the delay
onDisconnectResumes ==
    /\ disconnecting > 0
    /\ disconnecting' = disconnecting - 1
    /\ timers' = ClearTimeout(ClearTimeout(timers, reconnectResetTimer), reconnectTimer)
                    \cup {Timer(nextTimer, "connect", ReconnectTimeout(reconnectDelay), NoPort)}
    /\ reconnectResetTimer' = NoTimer
    /\ reconnectTimer' = nextTimer
    /\ nextTimer' = nextTimer + 1
    /\ reconnectDelay' = NextDelay(reconnectDelay)
    /\ doubled' = doubled + 1
    /\ stable' = FALSE
    /\ posted' = <<>>
    /\ broadcast' = <<>>
    /\ last' = [Last("onDisconnectDone") EXCEPT
                    !.sched = ReconnectTimeout(reconnectDelay), !.stable = stable]
    /\ UNCHANGED <<State, ports, nextPort, lifecycle, badge, action, menu, tabUrl, activeTab,
                   querying, getting, building>>


----------------------------------------------------------------------------
(* Inbound messages, tab events and the menu rebuild *)

\* messages of the companion process
HostMessages ==
    { [type |-> "connected", data |-> TRUE],
      [type |-> "connected", data |-> FALSE],
      [type |-> "status", data |-> FALSE] }
    \cup { [type |-> "devices", data |-> r] : r \in HostRosters }

\* the roster update of onPortMessage
Updated(s, message) ==
    IF message.type = "connected"
    THEN IF message.data
         THEN [s EXCEPT !.connected = TRUE]
         ELSE [s EXCEPT !.connected = FALSE, !.devices = <<>>]
    ELSE IF message.type = "devices"
         THEN [s EXCEPT !.connected = TRUE, !.devices = message.data]
         ELSE s

\* the request onPortMessage makes of the channel
Requested(s, message) ==
    IF message.type = "connected" /\ message.data
    THEN postMessage(s.port, DevicesRequest)
    ELSE <<>>

\* onPortMessage up to `await browser.tabs.query()`
onPortMessage ==
    \E p \in ports, message \in HostMessages :
        /\ Pending < MaxPending
        /\ State' = Updated(State, message)
        /\ posted' = Requested(State, message)
        /\ broadcast' = forwardPortMessage(message)
        /\ querying' = querying + 1
        /\ last' = [Last("onPortMessage") EXCEPT
                        !.type = message.type,
                        !.data = (message.type = "connected" /\ message.data)]
        /\ UNCHANGED <<reconnectDelay, reconnectTimer, reconnectResetTimer, timers,
                       nextTimer, ports, nextPort, lifecycle, badge, action, menu, tabUrl,
                       activeTab, disconnecting, getting, building, doubled, stable>>

\* variant: the entries of the earlier rebuild are not removed
createContextMenuKeeps(url) ==
    /\ menu' = menu
    /\ building' = [building EXCEPT ![url] = @ + 1]

\* createContextMenu(tab) up to `await browser.contextMenus.removeAll()`
createContextMenu(url) ==
    /\ menu' = {}
    /\ building' = [building EXCEPT ![url] = @ + 1]

\* onPortMessage after the await: createContextMenu(tabs[0])
onPortMessageResumes ==
    /\ querying > 0
    /\ querying' = querying - 1
    /\ createContextMenu(tabUrl[activeTab])
    /\ posted' = <<>>
    /\ broadcast' = <<>>
    /\ last' = Last("onPortMessageDone")
    /\ UNCHANGED <<State, reconnectDelay, reconnectTimer, reconnectResetTimer, timers,
                   nextTimer, ports, nextPort, lifecycle, badge, action, tabUrl, activeTab,
                   disconnecting, getting, doubled, stable>>

\* tabs.onActivated: browser.tabs.get(info.tabId).then(toggleAction) and
\* browser.tabs.get(info.tabId).then(createContextMenu)
OnActivated ==
    \E t \in Tabs :
        /\ t # activeTab
        /\ Pending < MaxPending
        /\ activeTab' = t
        /\ getting' = [getting EXCEPT ![t] = @ + 1]
        /\ posted' = <<>>
        /\ broadcast' = <<>>
        /\ last' = Last("onActivated")
        /\ UNCHANGED <<State, reconnectDelay, reconnectTimer, reconnectResetTimer,
                       timers, nextTimer, ports, nextPort, lifecycle, badge, action, menu,
                       tabUrl, disconnecting, querying, building, doubled, stable>>

\* both tabs.get calls of the listener resolve: toggleAction(tab), createContextMenu(tab)
TabsGetResolves ==
    \E t \in Tabs :
        /\ getting[t] > 0
        /\ getting' = [getting EXCEPT ![t] = @ - 1]
        /\ action' = toggleAction(action, t, tabUrl[t])
        /\ createContextMenu(tabUrl[t])
        /\ posted' = <<>>
        /\ broadcast' = <<>>
        /\ last' = Last("tabsGet")
        /\ UNCHANGED <<State, reconnectDelay, reconnectTimer, reconnectResetTimer,
                       timers, nextTimer, ports, nextPort, lifecycle, badge, tabUrl,
                       activeTab, disconnecting, querying, doubled, stable>>

\* tabs.onUpdated with changeInfo.url: createContextMenu(tab)
OnUpdated ==
    \E t \in Tabs, url \in Urls :
        /\ url # tabUrl[t]
        /\ Pending < MaxPending
        /\ tabUrl' = [tabUrl EXCEPT ![t] = url]
        /\ action' = toggleAction(action, t, url)
        /\ createContextMenu(url)
        /\ posted' = <<>>
        /\ broadcast' = <<>>
        /\ last' = Last("onUpdated")
        /\ UNCHANGED <<State, reconnectDelay, reconnectTimer, reconnectResetTimer,
                       timers, nextTimer, ports, nextPort, lifecycle, badge,
                       activeTab, disconnecting, querying, getting, doubled, stable>>

\* createContextMenu after the await: the entries for State.devices
createContextMenuResumes ==
    \E url \in Urls :
        /\ building[url] > 0
        /\ building' = [building EXCEPT ![url] = @ - 1]
        /\ menu' = BuiltMenu(menu, State.devices, url)
        /\ posted' = <<>>
        /\ broadcast' = <<>>
        /\ last' = [Last("createContextMenuDone") EXCEPT !.url = url]
        /\ UNCHANGED <<State, reconnectDelay, reconnectTimer, reconnectResetTimer,
                       timers, nextTimer, ports, nextPort, lifecycle, badge, action, tabUrl,
                       activeTab, disconnecting, querying, getting, doubled, stable>>

\* the entries a click can choose: those without children
Clickable(m) == { e \in m : \A c \in m : c.parentId # e.id }

\* contextMenus.onClicked: onContextItem(info), on the page of the active tab
onContextItem ==
    \E e \in Clickable(menu) :
        /\ posted' = postMessage(State.port,
                                 [type |-> "share",
                                  data |-> [device |-> ClickedDevice(e.id),
                                            url |-> tabUrl[activeTab],
                                            action |-> ClickedAction(e.id)]])
        /\ broadcast' = <<>>
        /\ last' = [Last("onContextItem") EXCEPT !.item = e.id]
        /\ UNCHANGED <<State, reconnectDelay, reconnectTimer, reconnectResetTimer,
                       timers, nextTimer, ports, nextPort, lifecycle, badge, action, menu,
                       tabUrl, activeTab, disconnecting, querying, getting, building,
                       doubled, stable>>

\* runtime.onMessage: onPopupMessage(message, sender)
onPopupMessage ==
    \E message \in PopupMessages, url \in SenderUrls :
        /\ posted' = IF SenderAccepted(url)
                     THEN postMessage(State.port, message)
                     ELSE <<>>
        /\ broadcast' = <<>>
        /\ last' = [Last("onPopupMessage") EXCEPT
                        !.url = url, !.type = message.type, !.trusted = (url = PopupUrl)]
        /\ UNCHANGED <<State, reconnectDelay, reconnectTimer, reconnectResetTimer,
                       timers, nextTimer, ports, nextPort, lifecycle, badge, action, menu,
                       tabUrl, activeTab, disconnecting, querying, getting, building,
                       doubled, stable>>

\* the channel supervisor and the handling of inbound messages, the tabs at rest
Next ==
    \/ OnStartup
    \/ OnInstalled
    \/ ReconnectTimerFires
    \/ ResetTimerFires
    \/ onDisconnect
    \/ onDisconnectResumes
    \/ onPortMessage
    \/ onPortMessageResumes
    \/ createContextMenuResumes

Spec == Init /\ [][Next]_vars


----------------------------------------------------------------------------
(* The supervisor when browser calls fail: the catch blocks of onDisconnect *)
(* and connect                                                             *)

\* `await browser.contextMenus.removeAll()` rejects inside onDisconnect: catch, logError
onDisconnectRejects ==
    /\ disconnecting > 0
    /\ disconnecting' = disconnecting - 1
    /\ posted' = <<>>
    /\ broadcast' = <<>>
    /\ last' = Last("onDisconnectFailed")
    /\ UNCHANGED <<State, reconnectDelay, reconnectTimer, reconnectResetTimer, timers,
                   nextTimer, ports, nextPort, lifecycle, badge, action, menu, tabUrl,
                   activeTab, querying, getting, building, doubled, stable>>

\* the reconnect timer fires and connectNative throws inside connect: catch, logError
ReconnectTimerFiresConnectThrows ==
    \E t \in timers :
        /\ t.kind = "connect"
        /\ timers' = timers \ {t}
        /\ posted' = <<>>
        /\ broadcast' = <<>>
        /\ last' = Last("connectFailed")
        /\ UNCHANGED <<State, reconnectDelay, reconnectTimer, reconnectResetTimer,
                       nextTimer, ports, nextPort, lifecycle, badge, action, menu, tabUrl,
                       activeTab, disconnecting, querying, getting, building, doubled,
                       stable>>

NextF ==
    \/ Next
    \/ onDisconnectRejects
    \/ ReconnectTimerFiresConnectThrows

\* timers fire and awaited browser calls settle
Fairness ==
    /\ WF_vars(ReconnectTimerFires \/ ReconnectTimerFiresConnectThrows)
    /\ WF_vars(ResetTimerFires)
    /\ WF_vars(onDisconnectResumes \/ onDisconnectRejects)
    /\ WF_vars(onPortMessageResumes)
    /\ WF_vars(createContextMenuResumes)

SpecF == Init /\ [][NextF]_vars /\ Fairness

----------------------------------------------------------------------------
(* The relay of popup messages over the supervised channel *)

RelayNext ==
    \/ OnStartup
    \/ OnInstalled
    \/ ReconnectTimerFires
    \/ ResetTimerFires
    \/ onDisconnect
    \/ onDisconnectResumes
    \/ onPopupMessage

RelaySpec == Init /\ [][RelayNext]_vars

----------------------------------------------------------------------------
(* The menu rebuild, one createContextMenu at a time, for every roster *)

RECURSIVE RostersOfLen(_)
RostersOfLen(n) ==
    IF n = 0 THEN { <<>> }
    ELSE { Append(r, d) : r \in RostersOfLen(n - 1), d \in Devices }

DistinctIds(r) == \A i, j \in 1..Len(r) : i # j => r[i].id # r[j].id

\* rosters of at most MaxDevices devices with distinct ids
AllRosters ==
    UNION { {r \in RostersOfLen(n) : DistinctIds(r)} : n \in 0..MaxDevices }

\* the menu left by an earlier rebuild
EarlierMenus == { {}, BuiltMenu({}, <<Dev(<<"c">>, TRUE, TRUE)>>, PageUrl) }

\* connect() has run at startup and the companion process has reported a roster
MenuInit ==
    /\ State \in [connected : {TRUE}, devices : AllRosters, port : {1}]
    /\ reconnectDelay = Base
    /\ reconnectTimer = NoTimer
    /\ reconnectResetTimer = 1
    /\ timers = {Timer(1, "reset", StabilizationTimeout(Base), 1)}
    /\ nextTimer = 2
    /\ ports = {1}
    /\ nextPort = 2
    /\ lifecycle = {"startup"}
    /\ badge = ConnectedBadge
    /\ action = [all |-> "disabled", tab |-> [t \in Tabs |-> "default"]]
    /\ menu \in EarlierMenus
    /\ tabUrl \in [Tabs -> Urls]
    /\ activeTab \in Tabs
    /\ disconnecting = 0
    /\ querying = 0
    /\ getting = [t \in Tabs |-> 0]
    /\ building = [u \in Urls |-> 0]
    /\ posted = <<>>
    /\ broadcast = <<>>
    /\ last = Last("init")
    /\ doubled = 0
    /\ stable = FALSE

MenuNext ==
    \/ Pending = 0 /\ OnActivated
    \/ Pending = 0 /\ OnUpdated
    \/ TabsGetResolves
    \/ createContextMenuResumes
    \/ onContextItem

MenuSpec == MenuInit /\ [][MenuNext]_vars

----------------------------------------------------------------------------
(* One channel from startup to its disconnect, with inbound messages, tab
   events and menu rebuilds interleaved *)

UiNext ==
    \/ OnStartup
    \/ onPortMessage
    \/ onPortMessageResumes
    \/ OnActivated
    \/ TabsGetResolves
    \/ OnUpdated
    \/ createContextMenuResumes
    \/ onDisconnect
    \/ onDisconnectResumes

UiSpec == Init /\ [][UiNext]_vars


----------------------------------------------------------------------------
(* Properties *)

RECURSIVE Pow2(_)
Pow2(n) == IF n = 0 THEN 1 ELSE 2 * Pow2(n - 1)

\* C1: after N onDisconnect runs with no stabilization timer firing in between,
\* starting from the base, the reconnect delay is base * 2^N
C1_DelayDoubles == reconnectDelay = Base * Pow2(doubled)

\* three onDisconnect runs in a row have completed
C1_Witness == last.op = "onDisconnectDone" /\ doubled = 3

\* C2: when a stabilization timer has fired while its channel was open, the next
\* onDisconnect schedules the reconnect after the base and leaves the delay at
\* twice the base, however many disconnects came before
C2_StableBackoffResets ==
    (last.op = "onDisconnectDone" /\ last.stable)
        => (last.sched = Base /\ reconnectDelay = 2 * Base)

\* a disconnect, a reconnect by timer, the stabilization timer, a second disconnect
C2_Witness ==
    /\ last.op = "onDisconnectDone"
    /\ last.stable
    /\ lifecycle = {"startup"}
    /\ nextPort >= 3

\* C3: after every onDisconnect the roster is connected = false, devices = []
C3_RosterResetOnDisconnect ==
    last.op = "onDisconnectDone"
        => (State.connected = FALSE /\ State.devices = <<>>)

\* C4: once an onDisconnect has completed, the only armed timer is the
\* reconnect timer it has just scheduled
C4_OnlyReconnectTimerArmed ==
    last.op = "onDisconnectDone"
        => timers = {Timer(reconnectTimer, "connect", last.sched, NoPort)}

\* C5: at most one channel is open at any time
C5_SingleLiveChannel == Cardinality(ports) <= 1

\* C6: once started, the supervisor always has an open channel, an onDisconnect
\* in progress or a pending reconnect timer, also when a browser call inside
\* onDisconnect or connect fails
C6_NeverStuck ==
    lifecycle # {}
        => \/ ports # {}
           \/ disconnecting > 0
           \/ \E t \in timers : t.kind = "connect"

\* C8: an inbound {type: connected, data: true} hands exactly one {type: devices}
\* request to the channel
C8_ConnectedRequestsDevices ==
    (last.op = "onPortMessage" /\ last.type = "connected" /\ last.data)
        => (Len(posted) = 1 /\ posted[1].message = DevicesRequest)

\* C9: a popup message whose sender is not the popup page is never handed to
\* the channel
C9_UntrustedNeverForwarded ==
    (last.op = "onPopupMessage" /\ ~last.trusted) => posted = <<>>

----------------------------------------------------------------------------
(* Properties of the menu *)

RosterDevices == { State.devices[i] : i \in 1..Len(State.devices) }

Both(d) == d.share /\ d.telephony
Neither(d) == ~d.share /\ ~d.telephony
ExactlyOne(d) == ~Both(d) /\ ~Neither(d)

\* the entry is the group or a leaf of the device
OfDevice(e, d) ==
    /\ Len(e.id) >= Len(d.id)
    /\ SubSeq(e.id, 1, Len(d.id)) = d.id

MenuOf(d) == { e \in menu : OfDevice(e, d) }

Completed == last.op = "createContextMenuDone"

\* C7: after a rebuild no menu entry carries the id of a device that has
\* neither capability
C7_NoCapabilityNoEntry ==
    Completed => \A d \in RosterDevices : Neither(d) => MenuOf(d) = {}

Root == [id |-> MultipleDevices, parentId |-> NoParent]

Group(d) ==
    { [id |-> d.id, parentId |-> MultipleDevices],
      [id |-> d.id \o <<":", "share">>, parentId |-> d.id],
      [id |-> d.id \o <<":", "telephony">>, parentId |-> d.id] }

Leaf(d) ==
    { [id |-> d.id \o <<":", IF d.share THEN "share" ELSE "telephony">>,
       parentId |-> MultipleDevices] }

\* C10: for a roster of two or more devices, a rebuild on a page that is not
\* internal leaves one top-level entry 'contextMenuMultipleDevices', under it a
\* group with the leaves '<id>:share' and '<id>:telephony' for every device with
\* both capabilities and one leaf '<id>:<capability>' for every device with
\* exactly one; nothing else but entries of the devices of the roster; seven
\* entries for two devices with both capabilities
C10_MultiDeviceMenu ==
    (Completed /\ ~ABOUT(last.url) /\ Len(State.devices) >= 2)
        => /\ { e \in menu : e.parentId = NoParent } = {Root}
           /\ \A d \in RosterDevices : Both(d) => MenuOf(d) = Group(d)
           /\ \A d \in RosterDevices : ExactlyOne(d) => MenuOf(d) = Leaf(d)
           /\ \A e \in menu : e = Root \/ \E d \in RosterDevices : OfDevice(e, d)
           /\ (Len(State.devices) = 2 /\ \A d \in RosterDevices : Both(d))
                  => Cardinality(menu) = 7

\* a rebuild for a device with both capabilities and one with telephony only
C10_Witness ==
    /\ Completed
    /\ ~ABOUT(last.url)
    /\ Len(State.devices) = 2
    /\ Both(State.devices[1])
    /\ State.devices[2].telephony /\ ~State.devices[2].share
    /\ Cardinality(menu) = 5


\* C11: for a roster of one device with exactly one capability, a rebuild on a
\* page that is not internal leaves exactly one entry, without parent, with the
\* id '<id>:share' or '<id>:telephony' after the capability
C11_SingleCapabilityMenu ==
    (Completed /\ ~ABOUT(last.url) /\ Len(State.devices) = 1
               /\ ExactlyOne(State.devices[1]))
        => menu = { [id |-> State.devices[1].id
                              \o <<":", IF State.devices[1].share
                                        THEN "share" ELSE "telephony">>,
                     parentId |-> NoParent] }

\* a rebuild for one device with share only
C11_Witness ==
    /\ Completed
    /\ ~ABOUT(last.url)
    /\ Len(State.devices) = 1
    /\ State.devices[1].share /\ ~State.devices[1].telephony
    /\ Cardinality(menu) = 1

\* C12: with no device in the roster, or on an internal page, a rebuild leaves
\* the menu empty, whatever it held before
C12_EmptyMenu ==
    (Completed /\ (ABOUT(last.url) \/ Len(State.devices) = 0)) => menu = {}

\* a rebuild on an internal page for a roster that is not empty
C12_Witness ==
    /\ Completed
    /\ ABOUT(last.url)
    /\ Len(State.devices) > 0
    /\ menu = {}


\* C13: postMessage hands a message to the channel only if a channel is open
\* when it is called and the message has a type; a message it drops is not kept:
\* no later step delivers it, a reconnect included
C13_DroppedNeverDelivered ==
    /\ Len(posted) <= 1
    /\ \A i \in 1..Len(posted) :
           /\ posted[i].port \in ports
           /\ posted[i].message.type # ""
           /\ posted[i].message = ShareRequest
                  => (last.op = "onPopupMessage" /\ last.type = "share")
    /\ (last.op = "onPopupMessage" /\ (State.port = NoPort \/ last.type = ""))
           => posted = <<>>

\* the popup sends a command after the channel has closed
C13_Witness ==
    /\ last.op = "onPopupMessage"
    /\ last.trusted
    /\ last.type = "share"
    /\ State.port = NoPort
    /\ nextPort > 1
    /\ posted = <<>>


\* the message onDisconnect makes up for the extension pages
ConnectionLost == [type |-> "connected", data |-> FALSE]

\* C14: the step in which a channel closes broadcasts exactly one
\* {type: connected, data: false} and arms no timer; the reconnect timer is armed
\* by a later step of an onDisconnect that has already broadcast
C14_BroadcastBeforeReconnect ==
    [][ /\ (ports' # ports /\ ports' \subseteq ports)
            => /\ broadcast' = <<ConnectionLost>>
               /\ timers' = timers
               /\ disconnecting' = disconnecting + 1
        /\ (\E t \in timers' \ timers : t.kind = "connect")
            => /\ disconnecting > 0
               /\ broadcast' = <<>> ]_vars

\* the channel closes before the companion process has reported anything
C14_Witness ==
    /\ last.op = "onDisconnect"
    /\ broadcast = <<ConnectionLost>>
    /\ State.devices = <<>>
    /\ querying = 0
    /\ disconnecting = 1


\* C15: whenever the roster says connected, State.port holds a channel that has
\* not disconnected
C15_ConnectedHasChannel ==
    State.connected => (State.port # NoPort /\ State.port \in ports)

\* C16: at most one activation of onPortMessage is in progress
C16_SingleFlight == querying <= 1

\* C18: the delay is set back to the base only by the stabilization timer of the
\* open channel: the timer the latest connect() armed, and only while that
\* channel has not begun to disconnect
C18_ResetOnlyByOpenChannel ==
    last.op = "reset" => (stable /\ last.timer = reconnectResetTimer)


\* C19: a click on the leaf that a rebuild created for capability cap of a
\* device whose id holds no ':' sends one share command with that device id and
\* that capability
C19_IdRoundTrip ==
    \A id \in DeviceIds, cap \in {"share", "telephony"} :
        (/\ last.op = "onContextItem"
         /\ ~Includes(id, ":")
         /\ last.item = id \o <<":", cap>>)
            => /\ Len(posted) = 1
               /\ posted[1].message.type = "share"
               /\ posted[1].message.data.device = id
               /\ posted[1].message.data.action = <<cap>>

\* the share leaf of device a has been clicked
C19_Witness ==
    /\ last.op = "onContextItem"
    /\ last.item = <<"a", ":", "share">>
    /\ [id |-> <<"a", ":", "share">>, parentId |-> <<"a">>] \in menu
    /\ Len(posted) = 1


\* C17: while the channel is open, once no handler and no rebuild is in
\* progress the menu holds exactly the entries a rebuild yields for the current
\* roster and the page of the active tab
C17_MenuMatchesRosterAndTab ==
    (Pending = 0 /\ ports # {} /\ disconnecting = 0)
        => menu = BuiltMenu({}, State.devices, tabUrl[activeTab])

\* C20: after onDisconnect has completed and while no channel is open, the menu
\* holds no entry
C20_NoEntryWhileChannelAbsent ==
    (lifecycle # {} /\ ports = {} /\ disconnecting = 0) => menu = {}

====
